---- MODULE Spec2Model ----
(***************************************************************************)
(* Model of convert_chords_interactive.py: the token classifier, the line  *)
(* classifier, the column merge, the standalone chord formatter and the    *)
(* pass controller process_lines.                                          *)
(*                                                                         *)
(* A line (a Python str) is a sequence of one-character strings.  Python   *)
(* indices are 0-based, TLA+ sequences 1-based: the Python lines[i] is     *)
(* lines[i + 1] here, and a token's start column is kept 0-based.          *)
(***************************************************************************)
EXTENDS Integers, Sequences, FiniteSets, TLC

\* ------------------------------------------------------------------------
\* Bounds of the checked inputs
\* ------------------------------------------------------------------------
MaxLines == 3
MaxChordLen == 5
MaxLyricLen == 3
MaxNextLen == 4

\* ------------------------------------------------------------------------
\* Characters and strings
\* ------------------------------------------------------------------------
UPPER == <<"A","B","C","D","E","F","G","H","I","J","K","L","M",
           "N","O","P","Q","R","S","T","U","V","W","X","Y","Z">>

LOWER == <<"a","b","c","d","e","f","g","h","i","j","k","l","m",
           "n","o","p","q","r","s","t","u","v","w","x","y","z">>

\* re.IGNORECASE: letters are compared after case folding.
ToLower(c) ==
    IF \E k \in 1..Len(UPPER) : UPPER[k] = c
    THEN LOWER[CHOOSE k \in 1..Len(UPPER) : UPPER[k] = c]
    ELSE c

LowerSeq(s) == [k \in 1..Len(s) |-> ToLower(s[k])]

\* What str.isspace(), str.split(), str.strip() and the regex class \s take
\* as whitespace, among the characters a line can hold.
IsSpace(c) == c \in {" ", "\t"}

Digits == {"0","1","2","3","4","5","6","7","8","9"}

Drop(s, k) == SubSeq(s, k + 1, Len(s))

IsPrefix(p, s) == Len(p) <= Len(s) /\ SubSeq(s, 1, Len(p)) = p

RECURSIVE LStrip(_)
LStrip(s) == IF s # <<>> /\ IsSpace(s[1]) THEN LStrip(Drop(s, 1)) ELSE s

RECURSIVE RStrip(_)
RStrip(s) ==
    IF s # <<>> /\ IsSpace(s[Len(s)]) THEN RStrip(SubSeq(s, 1, Len(s) - 1)) ELSE s

\* str.strip()
Strip(s) == RStrip(LStrip(s))

RECURSIVE Concat(_)
Concat(parts) == IF parts = <<>> THEN <<>> ELSE Head(parts) \o Concat(Tail(parts))

\* f"[{chord}]"
Bracketed(tok) == <<"[">> \o tok \o <<"]">>

\* ------------------------------------------------------------------------
\* Regular expressions of the token classifier
\* ------------------------------------------------------------------------
Roots == {"a","b","c","d","e","f","g"}

Accidentals == {"#","b"}

Qualities == { <<"m","a","j">>, <<"m","i","n">>, <<"m">>, <<"d","i","m">>,
               <<"a","u","g">>, <<"s","u","s">>, <<"a","d","d">> }

\* (?:/[A-G](?:#|b)?)?$
MatchBass(r) ==
    \/ r = <<>>
    \/ /\ Len(r) \in {2, 3}
       /\ r[1] = "/"
       /\ r[2] \in Roots
       /\ (Len(r) = 3 => r[3] \in Accidentals)

\* (?:(?:maj|min|m|dim|aug|sus|add)\d*)? followed by the bass and the end
MatchQualityBass(r) ==
    \/ MatchBass(r)
    \/ \E q \in Qualities :
          /\ IsPrefix(q, r)
          /\ \E d \in 0..(Len(r) - Len(q)) :
                /\ \A k \in 1..d : r[Len(q) + k] \in Digits
                /\ MatchBass(Drop(r, Len(q) + d))

\* CHORD_TOKEN_RE.match(t) is not None
CHORD_TOKEN_RE(t) ==
    LET s == LowerSeq(t) IN
    /\ Len(s) >= 1
    /\ s[1] \in Roots
    /\ \/ MatchQualityBass(Drop(s, 1))
       \/ /\ Len(s) >= 2
          /\ s[2] \in Accidentals
          /\ MatchQualityBass(Drop(s, 2))

\* PAREN_ANNOTATION_RE.match(t) is not None:  ^\(.*\)$
PAREN_ANNOTATION_RE(t) == Len(t) >= 2 /\ t[1] = "(" /\ t[Len(t)] = ")"

\* BAR_SEPARATOR_RE.match(t) is not None:  ^\|+$
BAR_SEPARATOR_RE(t) == Len(t) >= 1 /\ \A k \in 1..Len(t) : t[k] = "|"

is_chord_token(token) == token # <<>> /\ CHORD_TOKEN_RE(Strip(token))

is_parenthetical_annotation(token) == PAREN_ANNOTATION_RE(Strip(token))

is_bar_separator(token) == BAR_SEPARATOR_RE(Strip(token))

\* ------------------------------------------------------------------------
\* Tokenisation
\* ------------------------------------------------------------------------
\* Last index of the maximal run of characters of one kind (whitespace or
\* not) that holds index k.
RECURSIVE RunEnd(_, _)
RunEnd(line, k) ==
    IF k < Len(line) /\ IsSpace(line[k + 1]) = IsSpace(line[k])
    THEN RunEnd(line, k + 1)
    ELSE k

\* re.finditer(r"\S+|\s+", line) from index k on: the maximal runs, each with
\* its 0-based start column (match.start()) and its text (match.group(0)).
RECURSIVE FindRunsFrom(_, _)
FindRunsFrom(line, k) ==
    IF k > Len(line) THEN <<>>
    ELSE LET e == RunEnd(line, k) IN
         <<[start |-> k - 1, text |-> SubSeq(line, k, e)]>>
            \o FindRunsFrom(line, e + 1)

FindRuns(line) == FindRunsFrom(line, 1)

\* re.finditer(r"\S+", line): the maximal non-whitespace runs.
FindTokens(line) == SelectSeq(FindRuns(line), LAMBDA m : ~IsSpace(m.text[1]))

\* line.split()
Split(line) == LET ms == FindTokens(line) IN [k \in 1..Len(ms) |-> ms[k].text]

\* ------------------------------------------------------------------------
\* Line classifier
\* ------------------------------------------------------------------------
is_chord_only_line(line) ==
    LET tokens == Split(line) IN
    /\ tokens # <<>>
    /\ \A k \in 1..Len(tokens) :
          \/ is_chord_token(tokens[k])
          \/ is_parenthetical_annotation(tokens[k])
          \/ is_bar_separator(tokens[k])

\* ------------------------------------------------------------------------
\* Column merge
\* ------------------------------------------------------------------------
\* Fault: the is_chord_token filter is left out, so every token is inserted.
chord_positions_unfiltered(chord_line) == FindTokens(chord_line)

\* The (match.start(), token) pairs of the chord tokens of the chord line.
chord_positions(chord_line) ==
    SelectSeq(FindTokens(chord_line), LAMBDA m : is_chord_token(m.text))

\* Fault: a position past the end wraps around to the start of the lyric.
ClampIndexWrapped(insert_at, size) ==
    IF insert_at < 0 \/ insert_at > size THEN 0 ELSE insert_at

\* Clamp the insert position to [0, len(lyric_chars)]; size is
\* len(lyric_chars).
ClampIndex(insert_at, size) ==
    LET low == IF insert_at < 0 THEN 0 ELSE insert_at IN
    IF low > size THEN size ELSE low

\* lyric_chars[insert_at:insert_at] = list(bracketed)
InsertAt(lyric_chars, insert_at, bracketed) ==
    SubSeq(lyric_chars, 1, insert_at) \o bracketed
        \o SubSeq(lyric_chars, insert_at + 1, Len(lyric_chars))

\* Fault: the offset is not advanced by the characters just inserted.
AdvanceOffsetStale(offset, bracketed) == offset

\* offset += len(bracketed)
AdvanceOffset(offset, bracketed) == offset + Len(bracketed)

\* The insertion loop over chord_positions, from the given offset.
RECURSIVE InsertChords(_, _, _)
InsertChords(lyric_chars, positions, offset) ==
    IF positions = <<>> THEN lyric_chars
    ELSE LET pos       == Head(positions).start
             chord     == Head(positions).text
             insert_at == ClampIndex(pos + offset, Len(lyric_chars))
             bracketed == Bracketed(chord)
         IN  InsertChords(InsertAt(lyric_chars, insert_at, bracketed),
                          Tail(positions),
                          AdvanceOffset(offset, bracketed))

merge_chords_and_lyrics(chord_line, lyric_line) ==
    InsertChords(lyric_line, chord_positions(chord_line), 0)

\* ------------------------------------------------------------------------
\* Standalone chord formatter
\* ------------------------------------------------------------------------
\* tok.isspace()
isspace(tok) == tok # <<>> /\ \A k \in 1..Len(tok) : IsSpace(tok[k])

\* Fault: every non-whitespace token is bracketed, chord or not.
FormatPartBracketsAll(tok) == IF isspace(tok) THEN tok ELSE Bracketed(tok)

\* Fault: a whitespace run is replaced by one space.
FormatPartOneSpace(tok) ==
    IF isspace(tok) THEN <<" ">>
    ELSE IF is_chord_token(tok) THEN Bracketed(tok)
    ELSE tok

\* What one run of the line contributes to parts.
FormatPart(tok) ==
    IF isspace(tok) THEN tok
    ELSE IF is_chord_token(tok) THEN Bracketed(tok)
    ELSE IF is_parenthetical_annotation(tok) \/ is_bar_separator(tok) THEN tok
    ELSE tok

format_chord_only_line(line) ==
    LET ms == FindRuns(line) IN
    Concat([k \in 1..Len(ms) |-> FormatPart(ms[k].text)])

\* ------------------------------------------------------------------------
\* Inputs
\* ------------------------------------------------------------------------
\* "": a blank line
LineEmpty == <<>>

\* "  ": a line of whitespace only
LineSpaces == <<" "," ">>

\* "Em  D": two chords
LineChords == <<"E","m"," "," ","D">>

\* "Am": one chord
LineSingleChord == <<"A","m">>

\* "| A |": a chord between bar separators
LineBars == <<"|"," ","A"," ","|">>

\* "A (x2)": a chord and a parenthetical annotation
LineAnnotated == <<"A"," ","(","x","2",")">>

\* "| B | A | E | E | x2": the instrumental line of the docstrings
LineIntro == <<"|"," ","B"," ","|"," ","A"," ","|"," ","E"," ","|"," ","E"," ","|"," ","x","2">>

\* "[Chorus]": a section header
LineChorus == <<"[","C","h","o","r","u","s","]">>

\* "[Verse 1]": a section header of two words
LineVerse == <<"[","V","e","r","s","e"," ","1","]">>

\* "She loves you": a lyric line
LineLyric == <<"S","h","e"," ","l","o","v","e","s"," ","y","o","u">>

\* "Hi": a lyric line shorter than the chord line above it
LineShortLyric == <<"H","i">>

\* "oh [yeah]": a lyric line that holds brackets of its own
LineLyricBrackets == <<"o","h"," ","[","y","e","a","h","]">>

SampleLines == { LineEmpty, LineSpaces, LineChords, LineSingleChord,
                 LineBars, LineAnnotated, LineIntro, LineChorus,
                 LineVerse, LineLyric, LineShortLyric, LineLyricBrackets }

\* All strings over an alphabet up to a length.
Strs(alphabet, n) == UNION { [1..k -> alphabet] : k \in 0..n }

ChordAlphabet == {" ", "A", "m", "|"}

LyricAlphabet == {"x", "["}

NextAlphabet == {" ", "[", "]", "x"}

\* The inputs of process_lines: every sequence of up to MaxLines sample
\* lines, and every chord line followed by one short line over NextAlphabet.
InputSeqs ==
    UNION { [1..k -> SampleLines] : k \in 0..MaxLines }
        \cup { <<LineSingleChord, nx>> : nx \in Strs(NextAlphabet, MaxNextLen) }

\* ------------------------------------------------------------------------
\* State
\* ------------------------------------------------------------------------
VARIABLES
    lines,       \* process_lines: the input list
    i,           \* process_lines: the read index (0-based)
    out,         \* process_lines: the output list
    pc,          \* where the running call is
    steps,       \* process_lines: one record per loop iteration, in order
    chord_line,  \* direct call: first argument
    lyric_line,  \* direct call: second argument
    result       \* direct call: the value returned

vars == <<lines, i, out, pc, steps, chord_line, lyric_line, result>>

n == Len(lines)

cur_line == lines[i + 1]

next_line == lines[i + 2]

\* Fault: the header pattern takes one token only, ^\s*\[\S*\]\s*$.
BracketedHeaderOneToken(line) ==
    \E a \in 1..Len(line) : \E b \in (a + 1)..Len(line) :
        /\ line[a] = "["
        /\ line[b] = "]"
        /\ \A k \in 1..(a - 1) : IsSpace(line[k])
        /\ \A k \in (a + 1)..(b - 1) : ~IsSpace(line[k])
        /\ \A k \in (b + 1)..Len(line) : IsSpace(line[k])

\* re.match(r"^\s*\[.*\]\s*$", line) is not None
BracketedHeaderMatch(line) ==
    \E a \in 1..Len(line) : \E b \in (a + 1)..Len(line) :
        /\ line[a] = "["
        /\ line[b] = "]"
        /\ \A k \in 1..(a - 1) : IsSpace(line[k])
        /\ \A k \in (b + 1)..Len(line) : IsSpace(line[k])

\* next_line.strip() != "" and not re.match(r"^\s*\[.*\]\s*$", next_line)
HasLyricToMerge(line) == Strip(line) # <<>> /\ ~BracketedHeaderMatch(line)

\* i + 1 < n and the next line can take the chords
MergeChosen == i + 1 < n /\ HasLyricToMerge(next_line)

Init ==
    /\ lines \in InputSeqs
    /\ i = 0
    /\ out = <<>>
    /\ pc = "loop"
    /\ steps = <<>>
    /\ chord_line = <<>>
    /\ lyric_line = <<>>
    /\ result = <<>>

\* ------------------------------------------------------------------------
\* process_lines: one action per branch of the loop body
\* ------------------------------------------------------------------------
\* Fault: the merged lyric line is not skipped.
MergeStepKeepsLyric ==
    /\ pc = "loop"
    /\ i < n
    /\ is_chord_only_line(cur_line)
    /\ MergeChosen
    /\ out' = Append(out, merge_chords_and_lyrics(cur_line, next_line))
    /\ i' = i + 1
    /\ steps' = Append(steps, [at |-> i, kind |-> "merge", peeked |-> TRUE])
    /\ UNCHANGED <<lines, pc, chord_line, lyric_line, result>>

\* A chord-only line with a lyric line below it: merge, consume both.
MergeStep ==
    /\ pc = "loop"
    /\ i < n
    /\ is_chord_only_line(cur_line)
    /\ MergeChosen
    /\ out' = Append(out, merge_chords_and_lyrics(cur_line, next_line))
    /\ i' = i + 2
    /\ steps' = Append(steps, [at |-> i, kind |-> "merge", peeked |-> TRUE])
    /\ UNCHANGED <<lines, pc, chord_line, lyric_line, result>>

\* Fault: the standalone branch advances by 2, as the merge branch does.
StandaloneStepSkipsNext ==
    /\ pc = "loop"
    /\ i < n
    /\ is_chord_only_line(cur_line)
    /\ ~MergeChosen
    /\ out' = Append(out, format_chord_only_line(cur_line))
    /\ i' = i + 2
    /\ steps' = Append(steps, [at |-> i, kind |-> "standalone",
                               peeked |-> (i + 1 < n)])
    /\ UNCHANGED <<lines, pc, chord_line, lyric_line, result>>

\* A chord-only line with no suitable lyric below it: format it alone.
StandaloneStep ==
    /\ pc = "loop"
    /\ i < n
    /\ is_chord_only_line(cur_line)
    /\ ~MergeChosen
    /\ out' = Append(out, format_chord_only_line(cur_line))
    /\ i' = i + 1
    /\ steps' = Append(steps, [at |-> i, kind |-> "standalone",
                               peeked |-> (i + 1 < n)])
    /\ UNCHANGED <<lines, pc, chord_line, lyric_line, result>>

\* Fault: the read index is not advanced after a line is passed through.
PassThroughStalls ==
    /\ pc = "loop"
    /\ i < n
    /\ ~is_chord_only_line(cur_line)
    /\ out' = Append(out, cur_line)
    /\ i' = i
    /\ steps' = Append(steps, [at |-> i, kind |-> "pass", peeked |-> FALSE])
    /\ UNCHANGED <<lines, pc, chord_line, lyric_line, result>>

\* Fault: the line is emitted with its surrounding whitespace stripped.
PassThroughStripped ==
    /\ pc = "loop"
    /\ i < n
    /\ ~is_chord_only_line(cur_line)
    /\ out' = Append(out, Strip(cur_line))
    /\ i' = i + 1
    /\ steps' = Append(steps, [at |-> i, kind |-> "pass", peeked |-> FALSE])
    /\ UNCHANGED <<lines, pc, chord_line, lyric_line, result>>

\* Not a chord-only line: preserve as-is.
PassThrough ==
    /\ pc = "loop"
    /\ i < n
    /\ ~is_chord_only_line(cur_line)
    /\ out' = Append(out, cur_line)
    /\ i' = i + 1
    /\ steps' = Append(steps, [at |-> i, kind |-> "pass", peeked |-> FALSE])
    /\ UNCHANGED <<lines, pc, chord_line, lyric_line, result>>

\* The loop condition fails: return out.
Return ==
    /\ pc = "loop"
    /\ ~(i < n)
    /\ pc' = "done"
    /\ UNCHANGED <<lines, i, out, steps, chord_line, lyric_line, result>>

Next == MergeStep \/ StandaloneStep \/ PassThrough \/ Return

Spec == Init /\ [][Next]_vars

\* Every line an input list can hold, and of these the chord-only lines and
\* the lines a chord-only line above them is merged into.
InputLines == SampleLines \cup Strs(NextAlphabet, MaxNextLen)

ChordOnlyLines == {l \in InputLines : is_chord_only_line(l)}

MergeableLines == {l \in InputLines : HasLyricToMerge(l)}

\* What one pass through the while statement does to the read index and to
\* the position of the call: the merge branch adds 2, the other two
\* branches add 1, and a failed loop condition ends the call.
Advance ==
    /\ pc = "loop"
    /\ IF i < n
       THEN /\ i' = IF /\ cur_line \in ChordOnlyLines
                       /\ i + 1 < n
                       /\ next_line \in MergeableLines
                    THEN i + 2
                    ELSE i + 1
            /\ pc' = pc
       ELSE /\ i' = i
            /\ pc' = "done"

\* The call is one sequential thread with no suspension point: while the
\* call has not returned, its next pass through the while statement is
\* eventually taken.
SpecLive == Init /\ [][Next]_vars /\ WF_<<i, pc>>(Advance)

\* ------------------------------------------------------------------------
\* Direct calls of the two line transformers
\* ------------------------------------------------------------------------
InitFn ==
    /\ lines = <<>>
    /\ i = 0
    /\ out = <<>>
    /\ pc = "call"
    /\ steps = <<>>
    /\ chord_line \in Strs(ChordAlphabet, MaxChordLen)
    /\ lyric_line \in Strs(LyricAlphabet, MaxLyricLen)
    /\ result = <<>>

CallMerge ==
    /\ pc = "call"
    /\ result' = merge_chords_and_lyrics(chord_line, lyric_line)
    /\ pc' = "merged"
    /\ UNCHANGED <<lines, i, out, steps, chord_line, lyric_line>>

CallFormat ==
    /\ pc = "call"
    /\ result' = format_chord_only_line(chord_line)
    /\ pc' = "formatted"
    /\ UNCHANGED <<lines, i, out, steps, chord_line, lyric_line>>

NextFn == CallMerge \/ CallFormat

SpecFn == InitFn /\ [][NextFn]_vars

\* ------------------------------------------------------------------------
\* Vocabulary of the properties
\* ------------------------------------------------------------------------
Min(a, b) == IF a < b THEN a ELSE b

\* The line taken as current by the k-th iteration, and the line below it.
CurOf(k) == lines[steps[k].at + 1]

HasNext(k) == steps[k].at + 1 < Len(lines)

NextOf(k) == lines[steps[k].at + 2]

\* The read index after the k-th iteration.
AfterStep(k) == IF k < Len(steps) THEN steps[k + 1].at ELSE i

\* A line with at least one character that is not whitespace.
NonBlank(line) == \E k \in 1..Len(line) : ~IsSpace(line[k])

\* A line whose first non-blank character is "[" and whose last non-blank
\* character is a later "]".
TrimmedHeader(line) ==
    LET t == Strip(line) IN Len(t) >= 2 /\ t[1] = "[" /\ t[Len(t)] = "]"

\* A line made of one token "[...]" with no further bracket inside it.
SingleBracketedToken(line) ==
    LET toks == Split(line) IN
    /\ Len(toks) = 1
    /\ TrimmedHeader(toks[1])
    /\ \A k \in 2..(Len(toks[1]) - 1) : toks[1][k] \notin {"[", "]"}

\* How many times character c occurs in line.
Count(line, c) == Cardinality({k \in 1..Len(line) : line[k] = c})

\* How many tokens of the line are chords.
NumChords(line) ==
    LET toks == Split(line) IN
    Cardinality({k \in 1..Len(toks) : is_chord_token(toks[k])})

\* The bar separators and parenthetical annotations of a line, in order.
SepAnn(line) ==
    SelectSeq(Split(line),
              LAMBDA t : is_bar_separator(t) \/ is_parenthetical_annotation(t))

IsSubstring(t, line) ==
    \E a \in 0..(Len(line) - Len(t)) : SubSeq(line, a + 1, a + Len(t)) = t

\* Total length of the bracketed forms of the chord tokens ps[a..b].
RECURSIVE BracketLen(_, _, _)
BracketLen(ps, a, b) ==
    IF a > b THEN 0 ELSE Len(ps[a].text) + 2 + BracketLen(ps, a + 1, b)

\* The bracketed forms of the chord tokens ps[a..b], concatenated.
BracketsOf(ps, a, b) ==
    Concat([k \in 1..(b - a + 1) |-> Bracketed(ps[a + k - 1].text)])

\* Where the claim puts the bracket of chord token j in the merged line
\* (0-based): after min(p, len(lyric)) lyric characters and after the
\* brackets of the chord tokens to its left.
BracketStart(ps, j, lyric) ==
    Min(ps[j].start, Len(lyric)) + BracketLen(ps, 1, j - 1)

\* The indices (1-based) of the merged line that those brackets occupy.
BracketIdx(ps, lyric) ==
    UNION { (BracketStart(ps, j, lyric) + 1)
                ..(BracketStart(ps, j, lyric) + Len(ps[j].text) + 2)
            : j \in 1..Len(ps) }

\* The characters of s at the indices from k on that are not in idx.
RECURSIVE KeepOutside(_, _, _)
KeepOutside(s, idx, k) ==
    IF k > Len(s) THEN <<>>
    ELSE (IF k \in idx THEN <<>> ELSE <<s[k]>>) \o KeepOutside(s, idx, k + 1)

\* ------------------------------------------------------------------------
\* Properties of process_lines (checked under Spec)
\* ------------------------------------------------------------------------

Passthrough ==
    /\ Len(out) = Len(steps)
    /\ \A k \in 1..Len(steps) :
          ( \/ ~is_chord_only_line(CurOf(k))
            \/ ~NonBlank(CurOf(k))
            \/ TrimmedHeader(CurOf(k)) ) => out[k] = CurOf(k)
    /\ \A k \in 1..(Len(steps) - 1) : steps[k].at < steps[k + 1].at
    /\ (pc = "done" /\ lines = <<LineChorus, LineLyric>>) => out = lines

PassthroughWitness ==
    /\ pc = "done"
    /\ lines = <<LineChorus, LineLyric>>
    /\ out = <<LineChorus, LineLyric>>

\* C4: process_lines(["| B | A | E | E | x2"]) returns
\* ["| [B] | [A] | [E] | [E] | x2"].
LineIntroFormatted == <<"|"," ","[","B","]"," ","|"," ","[","A","]"," ","|"," ","[","E","]"," ","|"," ","[","E","]"," ","|"," ","x","2">>

StandaloneScenario ==
    (pc = "done" /\ lines = <<LineIntro>>) => out = <<LineIntroFormatted>>

\* C5: when the current line and the line below it are both chord-only, the
\* current line is emitted in its standalone form and the line below becomes
\* the next current line.
ConsecutiveChordLines ==
    \A k \in 1..Len(steps) :
       ( /\ is_chord_only_line(CurOf(k))
         /\ HasNext(k)
         /\ is_chord_only_line(NextOf(k)) ) =>
            /\ out[k] = format_chord_only_line(CurOf(k))
            /\ AfterStep(k) = steps[k].at + 1

\* C7 as stated: a merged output line holds exactly as many "[" and as many
\* "]" as the chord line has chord tokens.
BracketCountExact ==
    \A k \in 1..Len(steps) :
       steps[k].kind = "merge" =>
          /\ Count(out[k], "[") = NumChords(CurOf(k))
          /\ Count(out[k], "]") = NumChords(CurOf(k))

\* C7, amended: a merged output line holds exactly as many "[" (and as many
\* "]") more than the lyric line it was merged into as the chord line has
\* chord tokens; bar separators and annotations of the chord line add none.
BracketCountAdded ==
    \A k \in 1..Len(steps) :
       steps[k].kind = "merge" =>
          /\ Count(out[k], "[") = Count(NextOf(k), "[") + NumChords(CurOf(k))
          /\ Count(out[k], "]") = Count(NextOf(k), "]") + NumChords(CurOf(k))

\* A merge of a chord line that holds bar separators or annotations into a
\* lyric line that holds brackets of its own.
BracketCountWitness ==
    \E k \in 1..Len(steps) :
       /\ steps[k].kind = "merge"
       /\ SepAnn(CurOf(k)) # <<>>
       /\ NumChords(CurOf(k)) > 0
       /\ Count(NextOf(k), "[") > 0

\* C8 as stated: after a pass, every bar separator and every parenthetical
\* annotation of every input line is still to be found in the output.
SeparatorsKeptEverywhere ==
    pc = "done" =>
       \A a \in 1..Len(lines) :
          \A b \in 1..Len(SepAnn(lines[a])) :
             \E m \in 1..Len(out) : IsSubstring(SepAnn(lines[a])[b], out[m])

\* C8, amended: a line that is passed through or formatted standalone keeps
\* its bar separators and annotations, unchanged and in order; a merge adds
\* to the lyric line the bracketed chord tokens of the chord line and nothing
\* else, so the chord line's bar separators and annotations are dropped.
SeparatorsKeptUnlessMerged ==
    \A k \in 1..Len(steps) :
       IF steps[k].kind = "merge"
       THEN LET ps == SelectSeq(FindTokens(CurOf(k)),
                                LAMBDA m : is_chord_token(m.text)) IN
            /\ Len(out[k]) = Len(NextOf(k)) + BracketLen(ps, 1, Len(ps))
            /\ KeepOutside(out[k], BracketIdx(ps, NextOf(k)), 1) = NextOf(k)
       ELSE SepAnn(out[k]) = SepAnn(CurOf(k))

\* A pass that formatted standalone a line with separators or annotations.
SeparatorsWitness ==
    /\ pc = "done"
    /\ \E k \in 1..Len(steps) :
          /\ steps[k].kind = "standalone"
          /\ SepAnn(CurOf(k)) # <<>>
          /\ out[k] # CurOf(k)

\* C10 as stated: with a chord-only current line and a non-blank line below
\* it, the merge is refused if and only if the line below is a single
\* bracketed token.
HeaderIsSingleToken ==
    \A k \in 1..Len(steps) :
       (is_chord_only_line(CurOf(k)) /\ HasNext(k) /\ NonBlank(NextOf(k))) =>
          (steps[k].kind = "standalone" <=> SingleBracketedToken(NextOf(k)))

\* C10, amended: the merge is refused if and only if the line below, with
\* its leading and trailing whitespace removed, begins with "[" and ends
\* with a later "]", whatever lies between them.
HeaderIsBracketSpan ==
    \A k \in 1..Len(steps) :
       (is_chord_only_line(CurOf(k)) /\ HasNext(k) /\ NonBlank(NextOf(k))) =>
          /\ steps[k].kind \in {"standalone", "merge"}
          /\ steps[k].kind = "standalone" <=> TrimmedHeader(NextOf(k))
          /\ steps[k].kind = "merge" =>
                out[k] = merge_chords_and_lyrics(CurOf(k), NextOf(k))
          /\ steps[k].kind = "standalone" =>
                out[k] = format_chord_only_line(CurOf(k))

\* A merge refused because of a line below that spans several tokens.
HeaderWitness ==
    \E k \in 1..Len(steps) :
       /\ steps[k].kind = "standalone"
       /\ HasNext(k)
       /\ NonBlank(NextOf(k))
       /\ Len(Split(NextOf(k))) > 1

\* How many iterations took input index j (0-based) as the current line.
TimesCurrent(j) == Cardinality({k \in 1..Len(steps) : steps[k].at = j})

\* How many iterations read input index j (0-based) as the lookahead line.
TimesNext(j) ==
    Cardinality({k \in 1..Len(steps) : steps[k].peeked /\ steps[k].at + 1 = j})

\* Input index j (0-based) is the lyric line consumed by a merge.
MergedAway(j) ==
    \E k \in 1..Len(steps) : steps[k].kind = "merge" /\ steps[k].at + 1 = j

\* The read index never moved backwards.
NeverBackwards ==
    /\ \A k \in 1..(Len(steps) - 1) : steps[k].at <= steps[k + 1].at
    /\ \A k \in 1..Len(steps) : steps[k].at <= i

\* C11 as stated: over a whole run every input index is the current line
\* exactly once, the lookahead line at most once, and the read index never
\* moves backwards.
VisitedExactlyOnce ==
    /\ NeverBackwards
    /\ \A j \in 0..(Len(lines) - 1) : TimesNext(j) <= 1
    /\ pc = "done" => \A j \in 0..(Len(lines) - 1) : TimesCurrent(j) = 1

\* C11, amended: every input index is the current line at most once and the
\* lookahead line at most once, and the read index never moves backwards;
\* over a whole run an index is the current line exactly once unless it is
\* the lyric line consumed by a merge, which is read as the lookahead line
\* once and is never the current line.
VisitedOnceUnlessMerged ==
    /\ NeverBackwards
    /\ \A j \in 0..(Len(lines) - 1) :
          /\ TimesCurrent(j) <= 1
          /\ TimesNext(j) <= 1
          /\ MergedAway(j) => (TimesCurrent(j) = 0 /\ TimesNext(j) = 1)
    /\ \A k \in 1..Len(steps) : steps[k].at \in 0..(Len(lines) - 1)
    /\ pc = "done" =>
          \A j \in 0..(Len(lines) - 1) : MergedAway(j) \/ TimesCurrent(j) = 1

\* A finished run in which a merge consumed one line and a later line was
\* the current line.
VisitWitness ==
    /\ pc = "done"
    /\ \E j \in 0..(Len(lines) - 1) :
          /\ MergedAway(j)
          /\ \E later \in (j + 1)..(Len(lines) - 1) : TimesCurrent(later) = 1

\* How many merges the run has performed.
Merges == Cardinality({k \in 1..Len(steps) : steps[k].kind = "merge"})

\* The read index is within 0..len(lines), and every line read, as the
\* current line or as the lookahead line, is a line of the input.
IndexInBounds ==
    /\ 0 <= i /\ i <= Len(lines)
    /\ \A k \in 1..Len(steps) :
          /\ 0 <= steps[k].at /\ steps[k].at < Len(lines)
          /\ steps[k].peeked => steps[k].at + 1 < Len(lines)

\* An iteration of the loop moves the read index forward by 1 or by 2.
AdvancesByOneOrTwo == pc = "loop" /\ i < Len(lines) => i' \in {i + 1, i + 2}

\* The loop has stopped at the end of the input with one output line per
\* input line, less one per merge.
StoppedAtEnd ==
    pc = "done" => (i = Len(lines) /\ Len(out) = Len(lines) - Merges)

\* C12: the read index starts at 0, every iteration advances it by 1 or 2
\* (by 2 exactly when it merges), it stays within 0..n and no line past the
\* end is read, the loop eventually stops, and it stops with i = n and n
\* minus the number of merges output lines.
TerminationAndBounds ==
    /\ i = 0
    /\ [][AdvancesByOneOrTwo]_vars
    /\ [][Advance]_vars
    /\ []IndexInBounds
    /\ []StoppedAtEnd
    /\ <>(pc = "done")

\* A finished run that advanced by 2 (a merge) and by 1.
TerminationWitness ==
    /\ pc = "done"
    /\ i = Len(lines)
    /\ Merges > 0
    /\ Len(steps) > Merges
    /\ Len(out) = Len(lines) - Merges

\* ------------------------------------------------------------------------
\* Properties of the line transformers (checked under SpecFn)
\* ------------------------------------------------------------------------

\* C3: the merged line is the lyric line with one "[chord]" per chord token
\* of the chord line, in token order; min(p, len(lyric)) lyric characters
\* precede the bracket of the token at column p; removing the brackets gives
\* the lyric line back; the length grows by the lengths of the brackets.
ColumnPlacement ==
    pc = "merged" =>
       LET ps  == chord_positions(chord_line)
           idx == BracketIdx(ps, lyric_line)
       IN  /\ Len(result) = Len(lyric_line) + BracketLen(ps, 1, Len(ps))
           /\ \A j \in 1..Len(ps) :
                 LET s == BracketStart(ps, j, lyric_line) IN
                 /\ SubSeq(result, s + 1, s + Len(ps[j].text) + 2)
                       = Bracketed(ps[j].text)
                 /\ Cardinality({x \in 1..s : x \notin idx})
                       = Min(ps[j].start, Len(lyric_line))
           /\ KeepOutside(result, idx, 1) = lyric_line

\* A merge with one chord inside the lyric and a later one past its end.
ColumnPlacementWitness ==
    /\ pc = "merged"
    /\ LET ps == chord_positions(chord_line) IN
       /\ \E j \in 1..Len(ps) : ps[j].start < Len(lyric_line)
       /\ \E j \in 1..Len(ps) : ps[j].start > Len(lyric_line)

EndsWith(s, t) ==
    Len(t) <= Len(s) /\ SubSeq(s, Len(s) - Len(t) + 1, Len(s)) = t

\* C6 as stated: the merged line ends with the bracketed form of every chord
\* token whose start column exceeds the length of the lyric line.
ClampedAtVeryEnd ==
    pc = "merged" =>
       LET ps == chord_positions(chord_line) IN
       \A j \in 1..Len(ps) :
          ps[j].start > Len(lyric_line) => EndsWith(result, Bracketed(ps[j].text))

\* C6, amended: the bracketed form of a chord token whose start column
\* exceeds the length of the lyric line stands after every lyric character
\* and is followed only by the bracketed forms of the chord tokens to its
\* right, in order; so the merged line ends with the bracketed form of the
\* last chord token, and none is truncated or dropped.
ClampedInTail ==
    pc = "merged" =>
       LET ps == chord_positions(chord_line) IN
       \A j \in 1..Len(ps) :
          ps[j].start > Len(lyric_line) =>
             /\ EndsWith(result, BracketsOf(ps, j, Len(ps)))
             /\ Len(result) - BracketLen(ps, j, Len(ps)) >= Len(lyric_line)
             /\ EndsWith(result, Bracketed(ps[Len(ps)].text))

\* A merge with two chord tokens past the end of the lyric line.
ClampedWitness ==
    /\ pc = "merged"
    /\ LET ps == chord_positions(chord_line) IN
       \E j \in 1..(Len(ps) - 1) : ps[j].start > Len(lyric_line)

\* The runs of the formatted line, each chord token stripped of the bracket
\* before it and the bracket after it.
Unbracketed(rin, rout) ==
    Concat([k \in 1..Len(rout) |->
              IF is_chord_token(rin[k].text)
              THEN SubSeq(rout[k].text, 2, Len(rout[k].text) - 1)
              ELSE rout[k].text])

====
